---- MODULE Spec2Model ----
(***************************************************************************)
(* Forward-test execution state machine of invest_alphas: the persisted    *)
(* forward_tests table, the broker's sandbox accounts, the HTTP handlers    *)
(* start_forward_test / stop_forward_test, the polling driver               *)
(* ForwardTestExecutor and the ForwardTestService iteration.                *)
(***************************************************************************)
EXTENDS Integers, Sequences, FiniteSets, TLC

\* ------------------------------------------------------------------------
\* Bounds of the model
\* ------------------------------------------------------------------------
MaxDay == 2
MaxRuns == 1
MaxStarts == 1

\* rows in the table when the driver is checked on its own
MaxDriverRuns == 2

\* length of a price series, largest price in it, longest rolling window
MaxLen == 3

MaxValue == 2

MaxWindow == 2

\* instruments in a row of signals, largest absolute signal
MaxInstruments == 3

MaxSignal == 2

\* portfolio value in tens, largest lot size, largest held quantity
MaxPortfolio == 4

MaxLot == 2

MaxHeld == 3

\* tokens a user sets one after the other
MaxTokens == 2

\* SQL NULL / Python None
NULL == -1

\* ------------------------------------------------------------------------
\* Wall clock.  A day is numbered from 1; day 1 is a Friday, day 2 a
\* Saturday.  Inside a day the clock visits representative Moscow-time
\* instants <<hour, minute>>.  During the trading window the UTC date that
\* the executor uses and the Moscow date coincide.
\* ------------------------------------------------------------------------
Instants == << <<9, 59>>, <<10, 0>>, <<18, 45>>, <<18, 46>> >>

Hour(i) == Instants[i][1]

Minute(i) == Instants[i][2]

\* datetime.weekday(): Monday is 0, Sunday is 6
Weekday(d) == (d + 3) % 7

\* executor line 90: 10 <= now.hour < 18 or (now.hour == 18 and now.minute <= 45)
IsTradingTime(h, m) == (10 <= h /\ h < 18) \/ (h = 18 /\ m <= 45)

\* executor line 91
IsWeekday(d) == Weekday(d) < 5

\* executor line 105
DriverGuard(d, h, m, tow) == IsTradingTime(h, m) /\ (IsWeekday(d) \/ tow)

\* service line 205: `and` binds tighter than `or`
RunGuard(d, h, m) == (Weekday(d) < 5 /\ 10 <= h /\ h < 18) \/ (h = 18 /\ m <= 45)

\* ------------------------------------------------------------------------
\* Broker universe: the instruments returned by get_instruments, in the
\* order of the broker's list.
\* ------------------------------------------------------------------------
Instruments ==
    << [figi |-> "fA", ticker |-> "A", lot_size |-> 1],
       [figi |-> "fB", ticker |-> "B", lot_size |-> 1] >>

Range(s) == {s[i] : i \in DOMAIN s}

\* tinkoff_client lines 118-121: the ticker -> figi mapping of the cache
TickerToFigi == [t \in {Instruments[i].ticker : i \in DOMAIN Instruments} |->
                   (CHOOSE x \in Range(Instruments) : x.ticker = t).figi]

\* get_figi_by_ticker that answers an unknown ticker with the first figi
\* of the cache instead of raising
GetFigiByTickerDefaulting(t) ==
    IF t \in DOMAIN TickerToFigi THEN TickerToFigi[t] ELSE Instruments[1].figi

\* tinkoff_client.get_figi_by_ticker: "raise" stands for ValueError
GetFigiByTicker(t) == IF t \in DOMAIN TickerToFigi THEN TickerToFigi[t] ELSE "raise"

\* router line 54
ValidFigis == {Instruments[i].figi : i \in DOMAIN Instruments}

\* ------------------------------------------------------------------------
\* ForwardTestService construction
\* ------------------------------------------------------------------------
\* service lines 26-27: the parameters __init__ accepts
ServiceInitParams == {"account_id", "target_stocks", "tinkoff_client", "expression"}

\* executor lines 61-69: the keyword arguments the driver passes
ExecutorCtorKwargs ==
    {"forward_test_id", "account_id", "target_stocks", "tinkoff_client",
     "start_date", "expression", "trade_on_weekends"}

\* router lines 69-77: the keyword arguments start_forward_test passes
RouterCtorKwargs ==
    {"forward_test_id", "account_id", "target_stocks", "expression",
     "tinkoff_client", "start_date", "trade_on_weekends"}

\* Python raises TypeError for a keyword argument __init__ does not declare
CtorRaises(kwargs) == ~(kwargs \subseteq ServiceInitParams)

\* service lines 46-54: target_instruments keyed by ticker, for the
\* instruments whose ticker is in target_stocks; "raise" (ValueError) when
\* the count differs from len(target_stocks)
TargetInstruments(target_stocks) ==
    SelectSeq(Instruments, LAMBDA i : i.ticker \in Range(target_stocks))

InitializeRaises(target_stocks) ==
    Len(TargetInstruments(target_stocks)) # Len(target_stocks)

\* ------------------------------------------------------------------------
\* Persistence port (storage/db.py); forward_tests is a sequence of rows and
\* the SERIAL id of a row is its index.
\* ------------------------------------------------------------------------
\* db lines 154-170
CreateForwardTest(ft, account_id, tow, now) ==
    Append(ft, [account_id |-> account_id, datetime_start |-> now,
                datetime_end |-> NULL, is_running |-> TRUE,
                last_execution_date |-> NULL, trade_on_weekends |-> tow])

\* an UPDATE ... WHERE id = $1 without the test of datetime_end
StopForwardTestAgain(ft, id, now) ==
    IF id \in DOMAIN ft
    THEN [ft EXCEPT ![id].datetime_end = now, ![id].is_running = FALSE]
    ELSE ft

\* db lines 199-206
StopForwardTest(ft, id, now) ==
    IF id \in DOMAIN ft /\ ft[id].datetime_end = NULL
    THEN [ft EXCEPT ![id].datetime_end = now, ![id].is_running = FALSE]
    ELSE ft

\* db lines 208-218: the id of the running row of the account, 0 when none
GetActiveForwardTestByAccount(ft, account_id) ==
    LET ids == {i \in DOMAIN ft : ft[i].account_id = account_id /\ ft[i].is_running}
    IN IF ids = {} THEN 0 ELSE CHOOSE i \in ids : TRUE

\* a WHERE clause that looks at the last_execution_date only
IsSelectedIgnoringStop(row, today) ==
    row.last_execution_date = NULL \/ row.last_execution_date < today

\* db lines 232-234: the WHERE clause of get_all_active_forward_tests
IsSelected(row, today) ==
    /\ row.is_running
    /\ row.datetime_end = NULL
    /\ (row.last_execution_date = NULL \/ row.last_execution_date < today)

RECURSIVE DescIds(_, _, _)
DescIds(ft, today, n) ==
    IF n = 0 THEN << >>
    ELSE IF IsSelected(ft[n], today)
         THEN << n >> \o DescIds(ft, today, n - 1)
         ELSE DescIds(ft, today, n - 1)

\* db lines 220-238: ORDER BY datetime_start DESC; rows are inserted in
\* time order, so the newest row has the largest id
GetAllActiveForwardTests(ft, today) == DescIds(ft, today, Len(ft))

\* db lines 240-248: an unconditional UPDATE ... WHERE id = $2
UpdateLastExecutionDate(ft, id, execution_date) ==
    IF id \in DOMAIN ft
    THEN [ft EXCEPT ![id].last_execution_date = execution_date]
    ELSE ft

\* db line 248: the row count reported by the UPDATE
UpdateReportsSuccess(ft, id) == id \in DOMAIN ft

\* ------------------------------------------------------------------------
\* State
\* ------------------------------------------------------------------------
VARIABLES
    day,              \* current calendar date
    tidx,             \* index of the current instant in Instants
    forward_tests,    \* the forward_tests table
    openAccounts,     \* sandbox accounts open at the broker
    created,          \* number of sandbox accounts ever opened (ids 1..created)
    response,         \* the response of the last finished HTTP request
    stopReq,          \* the stop_forward_test request in flight
    drv,              \* ForwardTestExecutor: position in execute_iteration
    active_services,  \* ForwardTestExecutor.active_services
    drvLog,           \* history of the driver's ticks of the current day
    service,          \* a ForwardTestService instance driven by its run()
    orders,           \* post_order calls of the current execute_trades call
    sessions,         \* callers of the Database: rows each has selected
    calc,             \* the formula or signal row at hand and what came of it
    startReq,         \* the start_forward_test request between its database calls
    tinkoff_token,    \* users.tinkoff_token of the one user
    client_cache,     \* _client_cache[user_id]: the token of the cached client
    tokenUpdate,      \* the update_tinkoff_token request in flight
    clientReq         \* the get_auth_tinkoff_client calls in flight

authVars == << tinkoff_token, client_cache, tokenUpdate, clientReq >>

vars == << day, tidx, forward_tests, openAccounts, created, response,
           stopReq, drv, active_services, drvLog, service, orders, sessions,
           calc, startReq, authVars >>

clockVars == << day, tidx >>

apiVars == << response, stopReq >>

driverVars == << drv, active_services, drvLog >>

serviceVars == << service, orders >>

Callers == {1, 2}

NoSessions == [c \in Callers |-> {}]

RunIds == 1..(MaxRuns + MaxStarts)

NoResponse == [op |-> "none", status |-> 0, account |-> 0, unresolved |-> FALSE]

\* router lines 129 and 137-141, decorators lines 28-30: the status of the
\* answer of the stop handler
StopResponse(status) ==
    [op |-> "stop", status |-> status, account |-> 0, unresolved |-> FALSE]

IdleStop == [pc |-> "idle", account |-> 0, id |-> 0]

SleepingDriver == [pc |-> "sleep", active_tests |-> << >>, idx |-> 0, current_date |-> NULL]

EmptyLog == [ticks |-> 0, due |-> {}, erred |-> {},
             iterated |-> [r \in RunIds |-> 0], writes |-> [r \in RunIds |-> 0]]

NoService == [pc |-> "none"]

NoCalc == [op |-> "none"]

IdleStart == [pc |-> "idle", id |-> 0]

\* the requests that fetch a broker client
Getters == {1, 2}

IdleUpdate == [pc |-> "idle", token |-> 0]

IdleGet == [pc |-> "idle", user_token |-> NULL, client |-> NULL, settled |-> FALSE]

\* the user holds token 1, no client is cached and no request is in flight
NoAuthTraffic ==
    /\ tinkoff_token = 1
    /\ client_cache = NULL
    /\ tokenUpdate = IdleUpdate
    /\ clientReq = [g \in Getters |-> IdleGet]

\* rows as create_forward_test writes them, possibly already executed on
\* day 1
InitRows ==
    [account_id : {0}, datetime_start : {0}, datetime_end : {NULL},
     is_running : {TRUE}, last_execution_date : {NULL, 1},
     trade_on_weekends : BOOLEAN]

TablesUpTo(max) ==
    UNION {{[i \in 1..n |-> [f[i] EXCEPT !.account_id = i]] : f \in [1..n -> InitRows]}
           : n \in 1..max}

InitTables == TablesUpTo(MaxRuns)

\* ------------------------------------------------------------------------
\* Clock
\* ------------------------------------------------------------------------
ClockTick ==
    /\ IF tidx < Len(Instants)
       THEN /\ tidx' = tidx + 1
            /\ UNCHANGED << day, drvLog >>
       ELSE /\ day < MaxDay
            /\ day' = day + 1
            /\ tidx' = 1
            /\ drvLog' = EmptyLog
    /\ UNCHANGED << forward_tests, openAccounts, created, apiVars, drv,
                    active_services, serviceVars, sessions, calc, startReq, authVars >>

\* ------------------------------------------------------------------------
\* PUT /api/v1/forward/stop (router lines 115-141)
\* ------------------------------------------------------------------------
\* lines 127-132: look the running row up, 404 when there is none, else
\* stop it in the database
StopRunBegin(a) ==
    /\ stopReq.pc = "idle"
    /\ LET id == GetActiveForwardTestByAccount(forward_tests, a)
       IN IF id = 0
          THEN /\ response' = StopResponse(404)
               /\ UNCHANGED << forward_tests, stopReq >>
          ELSE /\ forward_tests' = StopForwardTest(forward_tests, id, day)
               /\ stopReq' = [pc |-> "closing", account |-> a, id |-> id]
               /\ UNCHANGED response
    /\ UNCHANGED << clockVars, openAccounts, created, driverVars,
                    serviceVars, sessions, calc, startReq, authVars >>

\* line 135: close_sandbox_account; the broker call may raise, and the
\* exception leaves the handler as a 500 (decorators lines 28-30)
StopRunClose ==
    /\ stopReq.pc = "closing"
    /\ \E ok \in BOOLEAN :
         IF ok /\ stopReq.account \in openAccounts
         THEN /\ openAccounts' = openAccounts \ {stopReq.account}
              /\ response' = StopResponse(200)
         ELSE /\ UNCHANGED openAccounts
              /\ response' = StopResponse(500)
    /\ stopReq' = IdleStop
    /\ UNCHANGED << clockVars, forward_tests, created, driverVars,
                    serviceVars, sessions, calc, startReq, authVars >>

\* ------------------------------------------------------------------------
\* POST /api/v1/forward/start (router lines 28-113)
\* ------------------------------------------------------------------------
Requests == { << "A" >>, << "A", "B" >>, << "A", "X" >>, << "X" >> }

\* lines 56-66: index of the first ticker get_figi_by_ticker does not know,
\* 0 when every ticker resolves
RECURSIVE FirstUnresolved(_, _)
FirstUnresolved(tickers, i) ==
    IF i > Len(tickers) THEN 0
    ELSE IF GetFigiByTicker(tickers[i]) = "raise" THEN i
         ELSE FirstUnresolved(tickers, i + 1)

\* lines 58-61: the figis of the request
ResolvedFigis(tickers) == [i \in DOMAIN tickers |-> GetFigiByTicker(tickers[i])]

\* lines 59-60: a figi that is not available for trading
HasInvalidFigi(tickers) == \E i \in DOMAIN tickers : ResolvedFigis(tickers)[i] \notin ValidFigis

HasUnresolved(tickers) == \E i \in DOMAIN tickers : tickers[i] \notin DOMAIN TickerToFigi

StartResponse(status, a, tickers) ==
    [op |-> "start", status |-> status, account |-> a, unresolved |-> HasUnresolved(tickers)]

\* an order placed by an iteration that a handler or the driver performs
\* as a whole
IterationOrder(a) ==
    [account |-> a, figi |-> "fA", direction |-> "BUY", quantity |-> 1,
     ok |-> TRUE, after_stop |-> GetActiveForwardTestByAccount(forward_tests, a) = 0]

StartRun(tickers, alphaFound, createOk) ==
    /\ created < MaxRuns + MaxStarts
    /\ IF ~alphaFound
       THEN \* lines 41-43
            /\ response' = StartResponse(404, 0, tickers)
            /\ UNCHANGED << forward_tests, openAccounts, created, orders >>
       ELSE IF ~createOk
       THEN \* line 46 raises: decorators lines 28-30
            /\ response' = StartResponse(500, 0, tickers)
            /\ UNCHANGED << forward_tests, openAccounts, created, orders >>
       ELSE LET a == created + 1 IN
            /\ created' = a
            /\ IF FirstUnresolved(tickers, 1) # 0
               THEN \* lines 65-66
                    /\ response' = StartResponse(404, a, tickers)
                    /\ openAccounts' = openAccounts \cup {a}
                    /\ UNCHANGED << forward_tests, orders >>
               ELSE IF HasInvalidFigi(tickers)
               THEN \* lines 59-60
                    /\ response' = StartResponse(400, a, tickers)
                    /\ openAccounts' = openAccounts \cup {a}
                    /\ UNCHANGED << forward_tests, orders >>
               ELSE IF CtorRaises(RouterCtorKwargs)
               THEN \* lines 69-77 raise TypeError outside the try block
                    /\ response' = StartResponse(500, a, tickers)
                    /\ openAccounts' = openAccounts \cup {a}
                    /\ UNCHANGED << forward_tests, orders >>
               ELSE \E tow, iterationOk, closeOk \in BOOLEAN :
                    IF InitializeRaises(ResolvedFigis(tickers)) \/ ~iterationOk
                    THEN \* lines 106-113
                         /\ response' = StartResponse(500, a, tickers)
                         /\ openAccounts' = IF closeOk THEN openAccounts
                                            ELSE openAccounts \cup {a}
                         /\ UNCHANGED << forward_tests, orders >>
                    ELSE \* lines 81-104
                         /\ orders' = Append(orders, IterationOrder(a))
                         /\ forward_tests' =
                              UpdateLastExecutionDate(
                                CreateForwardTest(forward_tests, a, tow, day),
                                Len(forward_tests) + 1, day)
                         /\ openAccounts' = openAccounts \cup {a}
                         /\ response' = StartResponse(200, a, tickers)
    /\ UNCHANGED << clockVars, stopReq, driverVars, service, sessions, calc,
                    startReq, authVars >>

\* ------------------------------------------------------------------------
\* ForwardTestExecutor (executor lines 77-136)
\* ------------------------------------------------------------------------
Bump(f, r) == [f EXCEPT ![r] = IF @ < 2 THEN @ + 1 ELSE @]

\* lines 81-82: the rows selected for this tick and the date of the tick;
\* a tick that selects nothing is over at once (lines 129-131)
ExecuteIterationBegin ==
    /\ drv.pc = "sleep"
    /\ LET tests == GetAllActiveForwardTests(forward_tests, day)
       IN IF tests = << >>
          THEN /\ drvLog' = [drvLog EXCEPT !.ticks = IF @ < 2 THEN @ + 1 ELSE @]
               /\ UNCHANGED drv
          ELSE /\ drv' = [pc |-> "loop", active_tests |-> tests, idx |-> 1,
                          current_date |-> day]
               /\ drvLog' = [drvLog EXCEPT !.erred = {}]
    /\ UNCHANGED << clockVars, forward_tests, openAccounts, created, apiVars,
                    active_services, serviceVars, sessions, calc, startReq, authVars >>

\* lines 129-131, or the next turn of the loop of line 84
Advance(d, log) ==
    IF d.idx < Len(d.active_tests)
    THEN /\ drv' = [d EXCEPT !.idx = @ + 1]
         /\ drvLog' = log
    ELSE /\ drv' = SleepingDriver
         /\ drvLog' = [log EXCEPT !.ticks = IF @ < 2 THEN @ + 1 ELSE @]

\* an exception that leaves execute_iteration and ends the tick (lines
\* 132-134)
AfterErrorEndingTick(d, log) ==
    /\ drv' = SleepingDriver
    /\ drvLog' = [log EXCEPT !.ticks = IF @ < 2 THEN @ + 1 ELSE @]

\* lines 100-102 and 117-120: the error of one row is logged inside the
\* loop, which goes on with the next row
AfterError(d, log) == Advance(d, log)

\* line 51: the figis of a row; every run of the model trades both
\* instruments
RunFigis == << "fA", "fB" >>

\* lines 85-120: the body of the loop for one selected row
ProcessTest(tokenOk) ==
    /\ drv.pc = "loop"
    /\ LET id == drv.active_tests[drv.idx]
           test == forward_tests[id]
           guard == DriverGuard(day, Hour(tidx), Minute(tidx), test.trade_on_weekends)
           figis == RunFigis
           log0 == [drvLog EXCEPT
                      !.due = IF guard /\ tokenOk /\ drvLog.ticks = 0
                              THEN @ \cup {id} ELSE @]
       IN IF id \notin DOMAIN active_services
             /\ (~tokenOk \/ CtorRaises(ExecutorCtorKwargs) \/ InitializeRaises(figis))
          THEN \* lines 96-102: the instance cannot be built, next row
               /\ AfterError(drv, log0)
               /\ UNCHANGED << forward_tests, active_services, orders >>
          ELSE LET services == IF id \in DOMAIN active_services THEN active_services
                               ELSE active_services @@ (id :> [account_id |-> test.account_id])
               IN IF ~guard
                  THEN \* line 105 is false
                       /\ active_services' = services
                       /\ Advance(drv, log0)
                       /\ UNCHANGED << forward_tests, orders >>
                  ELSE \E iterationOk \in BOOLEAN :
                       IF iterationOk
                       THEN \* lines 107-115
                            /\ active_services' = services
                            /\ orders' = Append(orders, IterationOrder(test.account_id))
                            /\ forward_tests' =
                                 UpdateLastExecutionDate(forward_tests, id, drv.current_date)
                            /\ Advance(drv, [log0 EXCEPT !.iterated = Bump(@, id),
                                                         !.writes = Bump(@, id)])
                       ELSE \* lines 117-120
                            /\ active_services' =
                                 [r \in DOMAIN services \ {id} |-> services[r]]
                            /\ AfterError(drv, [log0 EXCEPT !.iterated = Bump(@, id),
                                                            !.erred = @ \cup {id}])
                            /\ UNCHANGED << forward_tests, orders >>
    /\ UNCHANGED << clockVars, openAccounts, created, apiVars, service, sessions,
                    calc, startReq, authVars >>

\* ------------------------------------------------------------------------
\* ForwardTestService (service/forward_test_service.py)
\* ------------------------------------------------------------------------
\* A number n/d; d = 0 stands for NaN
Rat(n, d) == [n |-> n, d |-> d]

NaN == Rat(0, 0)

IsNaN(x) == x.d = 0

RawSignals == {Rat(-1, 1), Rat(1, 1), NaN}

\* positions of the sandbox account, in units per figi
Portfolios ==
    { [f \in ValidFigis |-> 10], [f \in ValidFigis |-> -10],
      [f \in ValidFigis |-> IF f = "fA" THEN 5 ELSE -5],
      [f \in ValidFigis |-> IF f = "fA" THEN -10 ELSE 10],
      [f \in ValidFigis |-> IF f = "fA" THEN 5 ELSE 10] }

PortfolioValues == {1000}

Prices == {100}

Abs(x) == IF x < 0 THEN -x ELSE x

RECURSIVE SumOver(_, _)
SumOver(f, S) ==
    IF S = {} THEN 0
    ELSE LET x == CHOOSE y \in S : TRUE IN f[x] + SumOver(f, S \ {x})

\* weights scaled to absolute sum 1 without taking the mean off
NeutralizeWeightsScaleOnly(raw) ==
    LET defined == {t \in DOMAIN raw : ~IsNaN(raw[t])}
        D == SumOver([t \in defined |-> Abs(raw[t].n)], defined)
    IN [t \in DOMAIN raw |-> IF t \in defined /\ D # 0 THEN Rat(raw[t].n, D) ELSE NaN]

\* alpha_calculator lines 20-27 on one row of signals: mean and absolute
\* sum skip NaN, a NaN signal stays NaN, and 0/0 is NaN.  With k defined
\* signals of sum S the weight of i is (k*s_i - S) / sum_j |k*s_j - S|.
NeutralizeWeights(raw) ==
    LET defined == {t \in DOMAIN raw : ~IsNaN(raw[t])}
        k == Cardinality(defined)
        S == SumOver([t \in defined |-> raw[t].n], defined)
        num == [t \in defined |-> k * raw[t].n - S]
        D == SumOver([t \in defined |-> Abs(num[t])], defined)
    IN [t \in DOMAIN raw |-> IF t \in defined /\ D # 0 THEN Rat(num[t], D) ELSE NaN]

\* Python round(): to the nearest integer, ties to the even one (d > 0)
RoundHalfEven(n, d) ==
    LET q == n \div d
        r == n - q * d
    IN IF 2 * r < d THEN q
       ELSE IF 2 * r > d THEN q + 1
       ELSE IF q % 2 = 0 THEN q ELSE q + 1

\* a weight of zero taken as "leave the position alone"
PositionChangeHoldingOnZero(value, signal, price, lot, current_position) ==
    IF signal.n = 0 THEN 0
    ELSE RoundHalfEven(value * 95 * signal.n, 100 * signal.d * price * lot)
           - (current_position \div lot)

\* the held lots taken as int(current_position / lot), which rounds toward
\* zero
PositionChangeTruncating(value, signal, price, lot, current_position) ==
    RoundHalfEven(value * 95 * signal.n, 100 * signal.d * price * lot)
      - (IF current_position < 0 THEN -((-current_position) \div lot)
         ELSE current_position \div lot)

\* service lines 122, 140-146: base_position_size = value * 0.95,
\* target_lots = round(base * signal / (price * lot)),
\* position_change = target_lots - current_position // lot
PositionChange(value, signal, price, lot, current_position) ==
    RoundHalfEven(value * 95 * signal.n, 100 * signal.d * price * lot)
      - (current_position \div lot)

\* service lines 46-50 as a sequence in the order of the broker's list
TickersOf(target_stocks) ==
    [i \in DOMAIN TargetInstruments(target_stocks) |->
       TargetInstruments(target_stocks)[i].ticker]

InstrumentOf(t) == CHOOSE x \in Range(Instruments) : x.ticker = t

\* service lines 126-135: the tickers of alpha_signals that get a trade
\* action, those with a frame of candles that is not empty; for the others
\* the loop logs and goes on
PricedTickers(tickers, signals, prices_data) ==
    SelectSeq(tickers, LAMBDA t : /\ t \in DOMAIN signals
                                  /\ t \in DOMAIN prices_data
                                  /\ prices_data[t] # "empty")

\* service lines 126-155: one trade action per signal, in the order of
\* alpha_signals
TradeActions(tickers, signals, value, price, positions) ==
    [i \in DOMAIN tickers |->
       LET inst == InstrumentOf(tickers[i])
       IN [ticker |-> tickers[i], figi |-> inst.figi,
           position_change |->
             PositionChange(value, signals[tickers[i]], price[tickers[i]],
                            inst.lot_size, positions[inst.figi])]]

\* the sells taken as the actions whose change is not positive
RECURSIVE NextSellOrZero(_, _)
NextSellOrZero(actions, i) ==
    IF i > Len(actions) THEN 0
    ELSE IF actions[i].position_change <= 0 THEN i ELSE NextSellOrZero(actions, i + 1)

\* first index from i on whose action is a sell (negative change), 0 if none
RECURSIVE NextSell(_, _)
NextSell(actions, i) ==
    IF i > Len(actions) THEN 0
    ELSE IF actions[i].position_change < 0 THEN i ELSE NextSell(actions, i + 1)

\* first index from i on whose action is a buy (positive change), 0 if none
RECURSIVE NextBuy(_, _)
NextBuy(actions, i) ==
    IF i > Len(actions) THEN 0
    ELSE IF actions[i].position_change > 0 THEN i ELSE NextBuy(actions, i + 1)

\* what the current iteration has read from the broker so far: the
\* portfolio (service line 60) and the instruments whose candles arrived
\* (service lines 77-83)
NothingRead == [positions |-> FALSE, prices |-> {}]

\* the marker set only when every order of the call was accepted
CompletedIfAllAccepted(svc, ords) ==
    [svc EXCEPT !.pc = "top",
                !.last_execution_date =
                   IF \A i \in DOMAIN ords : ords[i].ok THEN svc.current_date ELSE @,
                !.last = "completed", !.current_date = NULL, !.began_active = FALSE,
                !.read = NothingRead,
                !.alpha_signals = << >>, !.trade_actions = << >>, !.idx = 0]

\* service lines 221-227: the marker is set and the loop sleeps
Completed(svc, ords) ==
    [svc EXCEPT !.pc = "top", !.last_execution_date = svc.current_date,
                !.last = "completed", !.current_date = NULL, !.began_active = FALSE,
                !.read = NothingRead,
                !.alpha_signals = << >>, !.trade_actions = << >>, !.idx = 0]

\* an error after which the day counts as executed
FailedMarkingExecuted(svc) ==
    [svc EXCEPT !.pc = "top", !.last = "error",
                !.last_execution_date = svc.current_date, !.current_date = NULL,
                !.began_active = FALSE, !.read = NothingRead,
                !.alpha_signals = << >>, !.trade_actions = << >>, !.idx = 0]

\* service lines 229-231: the error is logged and the loop sleeps
Failed(svc) ==
    [svc EXCEPT !.pc = "top", !.last = "error", !.current_date = NULL,
                !.began_active = FALSE, !.read = NothingRead,
                !.alpha_signals = << >>, !.trade_actions = << >>, !.idx = 0]

\* first index from i on whose action changes the position, 0 if none
RECURSIVE NextTrade(_, _)
NextTrade(actions, i) ==
    IF i > Len(actions) THEN 0
    ELSE IF actions[i].position_change # 0 THEN i ELSE NextTrade(actions, i + 1)

\* one loop that submits the actions in the order of the list
AfterOrdersInListOrder(svc, ords, phase, from) ==
    LET j == NextTrade(svc.trade_actions, from)
    IN IF j = 0 THEN Completed(svc, ords)
       ELSE [svc EXCEPT !.idx = j,
                        !.pc = IF svc.trade_actions[j].position_change < 0
                               THEN "sell" ELSE "buy"]

\* service lines 157-185: the loop over the sells runs to its end, then the
\* loop over the buys; phase and from say where the call stands
AfterOrders(svc, ords, phase, from) ==
    IF phase = "sell" /\ NextSell(svc.trade_actions, from) # 0
    THEN [svc EXCEPT !.pc = "sell", !.idx = NextSell(svc.trade_actions, from)]
    ELSE LET b == NextBuy(svc.trade_actions, IF phase = "sell" THEN 1 ELSE from)
         IN IF b # 0
            THEN [svc EXCEPT !.pc = "buy", !.idx = b]
            ELSE Completed(svc, ords)

\* an exception of post_order that leaves execute_trades
AfterSubmitAbortOnFailure(svc, ords, phase, ok) ==
    IF ok THEN AfterOrders(svc, ords, phase, svc.idx + 1) ELSE Failed(svc)

\* service lines 160-170 and 175-185: an exception of post_order is logged
\* and the loop goes on with the next action
AfterSubmit(svc, ords, phase, ok) == AfterOrders(svc, ords, phase, svc.idx + 1)

Order(svc, dir, ok) ==
    [account |-> svc.account_id,
     figi |-> svc.trade_actions[svc.idx].figi,
     direction |-> dir,
     quantity |-> Abs(svc.trade_actions[svc.idx].position_change),
     ok |-> ok,
     after_stop |-> svc.began_active
                    /\ GetActiveForwardTestByAccount(forward_tests, svc.account_id) = 0]

ConstructedService(a, target_stocks, start_date) ==
    [pc |-> "constructed", account_id |-> a, target_stocks |-> target_stocks,
     start_date |-> start_date, last_execution_date |-> NULL,
     current_date |-> NULL, positions |-> [f \in ValidFigis |-> 0],
     prices_data |-> << >>, alpha_signals |-> << >>, trade_actions |-> << >>,
     idx |-> 0, last |-> "none", began_active |-> FALSE, read |-> NothingRead]

othersUnchangedByService ==
    UNCHANGED << clockVars, forward_tests, openAccounts, created, apiVars,
                 driverVars, sessions, calc, startReq, authVars >>

\* service lines 43-56
ServiceInitialize ==
    /\ service.pc = "constructed"
    /\ service' = IF InitializeRaises(service.target_stocks)
                  THEN [service EXCEPT !.pc = "failed"]
                  ELSE [service EXCEPT !.pc = "top"]
    /\ UNCHANGED orders
    /\ othersUnchangedByService

\* service lines 192-205 and 224-227: the top of the loop of run()
RunLoopTop ==
    /\ service.pc = "top"
    /\ service' =
         IF service.last_execution_date # day /\ RunGuard(day, Hour(tidx), Minute(tidx))
         THEN [service EXCEPT
                 !.current_date = day, !.pc = "positions", !.last = "running",
                 !.read = NothingRead,
                 !.began_active =
                    GetActiveForwardTestByAccount(forward_tests, service.account_id) # 0]
         ELSE [service EXCEPT !.last = "sleeping"]
    /\ orders' = << >>
    /\ othersUnchangedByService

\* a failed read of the portfolio that leaves the positions of the
\* earlier iteration in place and goes on
GetCurrentPositionsKeepingCache ==
    /\ service.pc = "positions"
    /\ \E ok \in BOOLEAN, pos \in Portfolios :
         service' = IF ok /\ service.account_id \in openAccounts
                    THEN [service EXCEPT !.positions = pos, !.pc = "history",
                                         !.read.positions = TRUE]
                    ELSE [service EXCEPT !.pc = "history"]
    /\ UNCHANGED orders
    /\ othersUnchangedByService

\* service lines 58-68; the broker call fails on a closed account
GetCurrentPositions ==
    /\ service.pc = "positions"
    /\ \E ok \in BOOLEAN, pos \in Portfolios :
         service' = IF ok /\ service.account_id \in openAccounts
                    THEN [service EXCEPT !.positions = pos, !.pc = "history",
                                         !.read.positions = TRUE]
                    ELSE Failed(service)
    /\ UNCHANGED orders
    /\ othersUnchangedByService

\* service lines 70-86 followed by calculate_alpha_signals (lines 88-109) and
\* the synchronous start of execute_trades (lines 113-117).  A fetch that
\* raises (line 85; without a start_date the date arithmetic of line 79
\* raises for every instrument) leaves the entry of prices_data as it was; a
\* request the client swallows stores an empty frame (tinkoff_client lines
\* 203-205), on which the evaluation raises.
GetHistoricalData ==
    /\ service.pc = "history"
    /\ LET tickers == Range(TickersOf(service.target_stocks))
       IN \E fetched \in (IF service.start_date = NULL THEN {[t \in tickers |-> "raise"]}
                            ELSE [tickers -> {"data", "empty", "raise"}]) :
            LET outcome == [t \in tickers |->
                              IF service.start_date = NULL THEN "raise" ELSE fetched[t]]
                stored == {t \in tickers : outcome[t] # "raise"}
                prices == [t \in stored \cup DOMAIN service.prices_data |->
                             IF t \in stored THEN outcome[t]
                             ELSE service.prices_data[t]]
                svc == [service EXCEPT
                          !.prices_data = prices,
                          !.read.prices = {t \in stored : outcome[t] = "data"}]
            IN IF \E t \in DOMAIN prices : prices[t] = "empty"
               THEN service' = Failed(svc)
               ELSE \E signals \in {NeutralizeWeights(held) :
                                        held \in [DOMAIN prices -> RawSignals]} :
                      service' = [svc EXCEPT !.alpha_signals = signals,
                                             !.pc = "portfolio"]
    /\ UNCHANGED orders
    /\ othersUnchangedByService

\* service lines 120-155, up to the first post_order.  round() of a NaN
\* target raises ValueError and ends the call before any order.
ExecuteTradesPrepare ==
    /\ service.pc = "portfolio"
    /\ \E ok \in BOOLEAN, value \in PortfolioValues :
         LET tickers == PricedTickers(TickersOf(service.target_stocks),
                                      service.alpha_signals, service.prices_data)
         IN \E price \in [Range(tickers) -> Prices] :
              IF ~(ok /\ service.account_id \in openAccounts)
                 \/ (\E t \in Range(tickers) : IsNaN(service.alpha_signals[t]))
              THEN /\ service' = Failed(service)
                   /\ UNCHANGED orders
              ELSE /\ service' =
                        AfterOrders(
                          [service EXCEPT !.trade_actions =
                             TradeActions(tickers, service.alpha_signals, value,
                                          price, service.positions)],
                          << >>, "sell", 1)
                   /\ orders' = << >>
    /\ othersUnchangedByService

\* service lines 158-170: post_order of the sell at idx
SubmitSell ==
    /\ service.pc = "sell"
    /\ \E accepted \in BOOLEAN :
         LET ok == accepted /\ service.account_id \in openAccounts
             ords == Append(orders, Order(service, "SELL", ok))
         IN /\ orders' = ords
            /\ service' = AfterSubmit(service, ords, "sell", ok)
    /\ othersUnchangedByService

\* service lines 173-185: post_order of the buy at idx
SubmitBuy ==
    /\ service.pc = "buy"
    /\ \E accepted \in BOOLEAN :
         LET ok == accepted /\ service.account_id \in openAccounts
             ords == Append(orders, Order(service, "BUY", ok))
         IN /\ orders' = ords
            /\ service' = AfterSubmit(service, ords, "buy", ok)
    /\ othersUnchangedByService

\* ------------------------------------------------------------------------
\* The deployed system: HTTP handlers, driver, database, broker, clock
\* ------------------------------------------------------------------------
Init ==
    /\ day = 1
    /\ tidx = 1
    /\ forward_tests \in InitTables
    /\ openAccounts = DOMAIN forward_tests
    /\ created = Len(forward_tests)
    /\ response = NoResponse
    /\ stopReq = IdleStop
    /\ drv = SleepingDriver
    /\ active_services = << >>
    /\ drvLog = EmptyLog
    /\ service = NoService
    /\ orders = << >>
    /\ sessions = NoSessions
    /\ calc = NoCalc
    /\ startReq = IdleStart
    /\ NoAuthTraffic

Next ==
    \/ ClockTick
    \/ \E a \in 1..created : StopRunBegin(a)
    \/ StopRunClose
    \/ \E tickers \in Requests, alphaFound \in BOOLEAN :
         \E createOk \in (IF alphaFound THEN BOOLEAN ELSE {TRUE}) :
           StartRun(tickers, alphaFound, createOk)
    \/ ExecuteIterationBegin
    \/ \E tokenOk \in BOOLEAN : ProcessTest(tokenOk)

Spec == Init /\ [][Next]_vars

\* ------------------------------------------------------------------------
\* A ForwardTestService built with the arguments its __init__ declares, over
\* the client that opened the run's sandbox account, initialized and driven
\* by its own run() loop, next to the stop handler and the clock
\* ------------------------------------------------------------------------
InitService ==
    /\ day = 1
    /\ tidx = 1
    /\ forward_tests \in {t \in InitTables :
                            /\ Len(t) = 1
                            /\ t[1].last_execution_date = NULL
                            /\ ~t[1].trade_on_weekends}
    /\ openAccounts = {1}
    /\ created = 1
    /\ response = NoResponse
    /\ stopReq = IdleStop
    /\ drv = SleepingDriver
    /\ active_services = << >>
    /\ drvLog = EmptyLog
    /\ \E target_stocks \in { << "A", "B" >>, << "A", "X" >> }, start_date \in {NULL, 1} :
         service = ConstructedService(1, target_stocks, start_date)
    /\ orders = << >>
    /\ sessions = NoSessions
    /\ calc = NoCalc
    /\ startReq = IdleStart
    /\ NoAuthTraffic

NextService ==
    \/ ClockTick
    \/ \E a \in 1..created : StopRunBegin(a)
    \/ StopRunClose
    \/ ServiceInitialize
    \/ RunLoopTop
    \/ GetCurrentPositions
    \/ GetHistoricalData
    \/ ExecuteTradesPrepare
    \/ SubmitSell
    \/ SubmitBuy

SpecService == InitService /\ [][NextService]_vars

\* ------------------------------------------------------------------------
\* The executor process on its own: the driver over a table of several
\* running rows, next to the clock
\* ------------------------------------------------------------------------
InitDriver ==
    /\ day = 1
    /\ tidx = 1
    /\ forward_tests \in TablesUpTo(MaxDriverRuns)
    /\ openAccounts = DOMAIN forward_tests
    /\ created = Len(forward_tests)
    /\ response = NoResponse
    /\ stopReq = IdleStop
    /\ drv = SleepingDriver
    /\ active_services = << >>
    /\ drvLog = EmptyLog
    /\ service = NoService
    /\ orders = << >>
    /\ sessions = NoSessions
    /\ calc = NoCalc
    /\ startReq = IdleStart
    /\ NoAuthTraffic

NextDriver ==
    \/ ClockTick
    \/ ExecuteIterationBegin
    \/ \E tokenOk \in BOOLEAN : ProcessTest(tokenOk)

SpecDriver == InitDriver /\ [][NextDriver]_vars

\* ------------------------------------------------------------------------
\* The Database methods of the forward_tests table, called by two callers
\* that share the table, as the HTTP process and the executor process do:
\* each selects the active rows and later marks a row it selected
\* ------------------------------------------------------------------------
dbOthers ==
    UNCHANGED << clockVars, openAccounts, created, apiVars, drv, active_services,
                 serviceVars, calc, authVars >>

\* db lines 220-238, called as at executor line 81
DbGetAllActiveForwardTests(c) ==
    /\ sessions' = [sessions EXCEPT
                      ![c] = Range(GetAllActiveForwardTests(forward_tests, day))]
    /\ UNCHANGED << forward_tests, drvLog, startReq >>
    /\ dbOthers

\* db lines 240-248, called as at executor line 114 for a selected row
DbUpdateLastExecutionDate(c, id) ==
    /\ id \in sessions[c]
    /\ forward_tests' = UpdateLastExecutionDate(forward_tests, id, day)
    /\ sessions' = [sessions EXCEPT ![c] = @ \ {id}]
    /\ drvLog' = IF UpdateReportsSuccess(forward_tests, id)
                 THEN [drvLog EXCEPT !.writes = Bump(@, id)]
                 ELSE drvLog
    /\ UNCHANGED startReq
    /\ dbOthers

\* db lines 154-170, called as at router line 88, the only call of the
\* code: the row is inserted with a NULL last_execution_date and the
\* handler goes on to its update
DbCreateForwardTest(tow) ==
    /\ startReq.pc = "idle"
    /\ Len(forward_tests) < MaxRuns
    /\ forward_tests' = CreateForwardTest(forward_tests, Len(forward_tests) + 1, tow, day)
    /\ startReq' = [pc |-> "created", id |-> Len(forward_tests) + 1]
    /\ UNCHANGED << sessions, drvLog >>
    /\ dbOthers

\* db lines 240-248, called as at router lines 97-98 for the row the
\* handler has just created; when the call raises the handler answers 500
\* (router lines 106-113) and the row stays as it was inserted
DbUpdateAfterCreate ==
    /\ startReq.pc = "created"
    /\ \E ok \in BOOLEAN :
         forward_tests' = IF ok
                          THEN UpdateLastExecutionDate(forward_tests, startReq.id, day)
                          ELSE forward_tests
    /\ startReq' = IdleStart
    /\ UNCHANGED << sessions, drvLog >>
    /\ dbOthers

\* db lines 199-206
DbStopForwardTest(id) ==
    /\ forward_tests' = StopForwardTest(forward_tests, id, day)
    /\ UNCHANGED << sessions, drvLog, startReq >>
    /\ dbOthers

InitDb ==
    /\ day = 1
    /\ tidx = 1
    /\ forward_tests = << >>
    /\ openAccounts = {}
    /\ created = 0
    /\ response = NoResponse
    /\ stopReq = IdleStop
    /\ drv = SleepingDriver
    /\ active_services = << >>
    /\ drvLog = EmptyLog
    /\ service = NoService
    /\ orders = << >>
    /\ sessions = NoSessions
    /\ calc = NoCalc
    /\ startReq = IdleStart
    /\ NoAuthTraffic

NextDb ==
    \/ ClockTick
    \/ \E c \in Callers : DbGetAllActiveForwardTests(c)
    \/ \E c \in Callers, id \in RunIds : DbUpdateLastExecutionDate(c, id)
    \/ \E tow \in BOOLEAN : DbCreateForwardTest(tow)
    \/ DbUpdateAfterCreate
    \/ \E id \in DOMAIN forward_tests : DbStopForwardTest(id)

SpecDb == InitDb /\ [][NextDb]_vars

\* ------------------------------------------------------------------------
\* Properties
\* ------------------------------------------------------------------------
\* ------------------------------------------------------------------------
\* Formula language (utils/alpha_calculator.py, utils/expression_parser.py)
\* ------------------------------------------------------------------------
\* a node of the Python ast of a formula: its class, the identifier,
\* operator or function it names, the value of a literal, its children
Node(kind, name, value, args) ==
    [kind |-> kind, name |-> name, value |-> value, args |-> args]

Constant(v) == Node("Constant", "", v, << >>)

Name(id) == Node("Name", id, 0, << >>)

Call(f, args) == Node("Call", f, 0, args)

\* alpha_calculator lines 63-64
ALLOWED_FUNCS == {"sma", "std", "max", "min", "sign", "abs"}

ALLOWED_NAMES == {"open", "high", "low", "close", "volume", "returns", "True", "False"}

\* alpha_calculator lines 65-73: the operator classes among the allowed
\* node types
AllowedOperators ==
    [BinOp |-> {"Add", "Sub", "Mult", "Div", "Pow", "Mod"},
     UnaryOp |-> {"UAdd", "USub", "Not"},
     BoolOp |-> {"And", "Or"},
     Compare |-> {"Eq", "NotEq", "Lt", "LtE", "Gt", "GtE"}]

\* alpha_calculator lines 75-120: TRUE when FormulaValidator().visit
\* returns, FALSE when it raises
RECURSIVE Validate(_)
Validate(node) ==
    CASE node.kind = "Name" ->
           node.name \in ALLOWED_NAMES \/ node.name \in ALLOWED_FUNCS
      [] node.kind = "Call" ->
           /\ node.name \in ALLOWED_FUNCS
           /\ \A i \in DOMAIN node.args : Validate(node.args[i])
      [] node.kind \in {"Attribute", "Subscript", "Lambda", "ListComp"} -> FALSE
      [] node.kind = "Constant" -> TRUE
      [] node.kind \in DOMAIN AllowedOperators ->
           /\ node.name \in AllowedOperators[node.kind]
           /\ \A i \in DOMAIN node.args : Validate(node.args[i])
      [] node.kind = "IfExp" ->
           \A i \in DOMAIN node.args : Validate(node.args[i])
      [] OTHER -> FALSE

\* expression_parser lines 121-127 and 150-157: the operator tables of
\* BinOp and Compare, looked up when the node is built
ParserOperators ==
    [BinOp |-> {"Add", "Sub", "Mult", "Div", "Pow"},
     Compare |-> {"Gt", "Lt", "GtE", "LtE", "Eq", "NotEq"}]

Raised == [kind |-> "raise"]

\* expression_parser lines 166-193: the Expression tree of a formula, or
\* Raised when _parse_node raises
RECURSIVE ParseNode(_)
ParseNode(node) ==
    LET kids == [i \in DOMAIN node.args |-> ParseNode(node.args[i])]
        kidsOk == \A i \in DOMAIN kids : kids[i] # Raised
    IN CASE node.kind = "Constant" -> Node("Const", "", node.value, << >>)
         [] node.kind = "Name" -> Node("Var", node.name, 0, << >>)
         [] node.kind \in {"BinOp", "Compare"} ->
              IF kidsOk /\ node.name \in ParserOperators[node.kind]
              THEN Node(node.kind, node.name, 0, kids) ELSE Raised
         [] node.kind = "UnaryOp" ->
              IF kidsOk THEN Node("UnaryOp", node.name, 0, kids) ELSE Raised
         [] node.kind = "Call" ->
              IF kidsOk THEN Node("Func", node.name, 0, kids) ELSE Raised
         [] OTHER -> Raised

\* exact arithmetic on the numbers n/d, kept in lowest terms with d > 0;
\* NaN is absorbing
RECURSIVE GCD(_, _)
GCD(a, b) == IF b = 0 THEN a ELSE GCD(b, a % b)

Norm(n, d) ==
    IF d = 0 THEN NaN
    ELSE LET g == GCD(Abs(n), Abs(d))
             sgn == IF d < 0 THEN -1 ELSE 1
         IN Rat(sgn * (n \div g), sgn * (d \div g))

RatAdd(a, b) == IF IsNaN(a) \/ IsNaN(b) THEN NaN ELSE Norm(a.n * b.d + b.n * a.d, a.d * b.d)

RatSub(a, b) == IF IsNaN(a) \/ IsNaN(b) THEN NaN ELSE Norm(a.n * b.d - b.n * a.d, a.d * b.d)

RatMul(a, b) == IF IsNaN(a) \/ IsNaN(b) THEN NaN ELSE Norm(a.n * b.n, a.d * b.d)

RatDiv(a, b) == IF IsNaN(a) \/ IsNaN(b) THEN NaN ELSE Norm(a.n * b.d, a.d * b.n)

RatLess(a, b) == a.n * b.d < b.n * a.d

RECURSIVE RatSum(_)
RatSum(xs) == IF xs = << >> THEN Rat(0, 1) ELSE RatAdd(Head(xs), RatSum(Tail(xs)))

RECURSIVE RatProd(_)
RatProd(xs) == IF xs = << >> THEN Rat(1, 1) ELSE RatMul(Head(xs), RatProd(Tail(xs)))

Products(xs, ys) == [i \in DOMAIN xs |-> RatMul(xs[i], ys[i])]

\* position (from 0) of the first largest / smallest element, as
\* np.nanargmax / np.nanargmin return it
ArgMax(xs) ==
    CHOOSE i \in 0..(Len(xs) - 1) :
      /\ \A j \in DOMAIN xs : ~RatLess(xs[i + 1], xs[j])
      /\ \A j \in 1..i : RatLess(xs[j], xs[i + 1])

ArgMin(xs) ==
    CHOOSE i \in 0..(Len(xs) - 1) :
      /\ \A j \in DOMAIN xs : ~RatLess(xs[j], xs[i + 1])
      /\ \A j \in 1..i : RatLess(xs[i + 1], xs[j])

\* population variance and sample covariance of the windows
Variance(xs) ==
    LET n == Rat(Len(xs), 1)
        m == RatDiv(RatSum(xs), n)
    IN RatSub(RatDiv(RatSum(Products(xs, xs)), n), RatMul(m, m))

Covariance(xs, ys) ==
    LET n == Rat(Len(xs), 1)
    IN RatDiv(RatSub(RatSum(Products(xs, ys)),
                     RatDiv(RatMul(RatSum(xs), RatSum(ys)), n)),
              Rat(Len(xs) - 1, 1))

\* expression_parser lines 66-105: what each rolling function computes on
\* one window.  stddev stands for the variance it is the root of, and
\* correlation for cov * |cov| / (var_x * var_y), the signed square of the
\* coefficient: both maps are one-to-one on the values they replace.
RollingFuncs ==
    {"mean", "stddev", "min", "max", "sum", "product", "correlation",
     "covariance", "ts_argmax", "ts_argmin"}

TwoSeriesFuncs == {"correlation", "covariance"}

Reduce(fn, xs, ys) ==
    CASE fn = "sum" -> RatSum(xs)
      [] fn = "mean" -> RatDiv(RatSum(xs), Rat(Len(xs), 1))
      [] fn = "product" -> RatProd(xs)
      [] fn = "max" -> xs[ArgMax(xs) + 1]
      [] fn = "min" -> xs[ArgMin(xs) + 1]
      [] fn = "ts_argmax" -> Rat(ArgMax(xs), 1)
      [] fn = "ts_argmin" -> Rat(ArgMin(xs), 1)
      [] fn = "stddev" -> Variance(xs)
      [] fn = "covariance" -> Covariance(xs, ys)
      [] fn = "correlation" ->
           LET c == Covariance(xs, ys)
           IN RatDiv(RatMul(c, Rat(Abs(c.n), c.d)),
                     RatMul(RatMul(Variance(xs), Variance(ys)),
                            RatMul(Rat(Len(xs), Len(xs) - 1), Rat(Len(xs), Len(xs) - 1))))

\* the observations pandas' Series.rolling(n) hands to the function at
\* time t: with the default closed = 'right' the n that end at t, t itself
\* included
RollingWindow(t, n) == (t - n + 1)..t

\* Series.rolling(n).f(): NaN until the window holds n defined observations
Rolling(fn, xs, ys, n) ==
    [t \in DOMAIN xs |->
       LET w == RollingWindow(t, n)
           lo == CHOOSE i \in w : \A j \in w : i <= j
           hi == CHOOSE i \in w : \A j \in w : j <= i
       IN IF \E i \in w : i < 1 \/ i > Len(xs) THEN NaN
          ELSE IF \E i \in w : IsNaN(xs[i]) \/ IsNaN(ys[i]) THEN NaN
          ELSE Reduce(fn, SubSeq(xs, lo, hi), SubSeq(ys, lo, hi))]

\* what evaluate returns: a number, a series of numbers, a series of
\* booleans, or the exception it raises
Value(tag, v, kind) == [tag |-> tag, v |-> v, kind |-> kind]

Scalar(r) == Value("scalar", r, "")

Series(xs) == Value("series", xs, "")

Bools(bs) == Value("bools", bs, "")

Error(kind) == Value("error", << >>, kind)

\* pd.Series(x) of a number is the series of that one number
AsSeries(val) == IF val.tag = "scalar" THEN << val.v >> ELSE val.v

\* expression_parser lines 121-127 and 150-157: the function behind an
\* operator of the tables
Operate(op, x, y) ==
    CASE op = "Add" -> RatAdd(x, y)
      [] op = "Sub" -> RatSub(x, y)
      [] op = "Mult" -> RatMul(x, y)
      [] op = "Div" -> RatDiv(x, y)
      [] op = "Gt" -> RatLess(y, x)
      [] op = "Lt" -> RatLess(x, y)

\* an operator on numbers and series: a number is broadcast over the
\* series
Broadcast(op, a, b) ==
    IF a.tag = "scalar" /\ b.tag = "scalar" THEN << Operate(op, a.v, b.v) >>
    ELSE IF a.tag = "scalar" THEN [i \in DOMAIN b.v |-> Operate(op, a.v, b.v[i])]
    ELSE IF b.tag = "scalar" THEN [i \in DOMAIN a.v |-> Operate(op, a.v[i], b.v)]
    ELSE [i \in DOMAIN a.v |-> Operate(op, a.v[i], b.v[i])]

Shaped(a, b, xs) ==
    IF a.tag = "scalar" /\ b.tag = "scalar" THEN Scalar(xs[1]) ELSE Series(xs)

RatAbs(a) == Rat(Abs(a.n), a.d)

RatSign(a) == IF IsNaN(a) THEN NaN
              ELSE Rat(IF a.n > 0 THEN 1 ELSE IF a.n < 0 THEN -1 ELSE 0, 1)

RatNeg(a) == Rat(-a.n, a.d)

\* np.abs, np.sign and unary minus on one number
Elementwise(f, x) ==
    CASE f = "abs" -> RatAbs(x)
      [] f = "sign" -> RatSign(x)
      [] f = "USub" -> RatNeg(x)

MapValue(f, a) ==
    IF a.tag = "scalar" THEN Scalar(Elementwise(f, a.v))
    ELSE Series([i \in DOMAIN a.v |-> Elementwise(f, a.v[i])])

\* expression_parser lines 30-118 once the arguments are evaluated
ApplyFunc(name, vals) ==
    IF name \in {"abs", "sign"}
    THEN IF Len(vals) = 0 THEN Error("TypeError")
         ELSE MapValue(name, vals[1])
    ELSE IF name \in RollingFuncs \ TwoSeriesFuncs
    THEN IF Len(vals) < 2 THEN Error("IndexError")
         ELSE IF vals[2].tag # "scalar" THEN Error("TypeError")
         ELSE Series(Rolling(name, AsSeries(vals[1]), AsSeries(vals[1]),
                             vals[2].v.n \div vals[2].v.d))
    ELSE IF name \in TwoSeriesFuncs
    THEN IF Len(vals) < 3 THEN Error("IndexError")
         ELSE IF vals[3].tag # "scalar" THEN Error("TypeError")
         ELSE Series(Rolling(name, AsSeries(vals[1]), AsSeries(vals[2]),
                             vals[3].v.n \div vals[3].v.d))
    ELSE Error("Unknown function")

\* index of the first element that is an exception, 0 when none is
FirstError(vals) ==
    IF \E i \in DOMAIN vals : vals[i].tag = "error"
    THEN CHOOSE i \in DOMAIN vals :
           vals[i].tag = "error" /\ \A j \in 1..(i - 1) : vals[j].tag # "error"
    ELSE 0

\* expression_parser lines 14-15, 20-24, 30-118, 132-133, 139-146, 162-163
RECURSIVE Evaluate(_, _)
Evaluate(expr, context) ==
    LET vals == [i \in DOMAIN expr.args |-> Evaluate(expr.args[i], context)]
    IN IF FirstError(vals) # 0 THEN vals[FirstError(vals)]
       ELSE CASE expr.kind = "Const" -> Scalar(Rat(expr.value, 1))
         [] expr.kind = "Var" ->
              IF expr.name \in DOMAIN context THEN Series(context[expr.name])
              ELSE Error("Unknown variable")
         [] expr.kind = "Func" -> ApplyFunc(expr.name, vals)
         [] expr.kind = "BinOp" ->
              Shaped(vals[1], vals[2], Broadcast(expr.name, vals[1], vals[2]))
         [] expr.kind = "UnaryOp" ->
              IF expr.name = "UAdd" THEN vals[1]
              ELSE IF expr.name = "USub" THEN MapValue("USub", vals[1])
              ELSE Error("Unsupported unary operator")
         [] expr.kind = "Compare" ->
              Bools(Broadcast(expr.name, vals[1], vals[2]))

\* the close prices of one instrument, oldest first
PriceSeries == [1..MaxLen -> 0..MaxValue]

\* service line 97: the columns of the frame of one instrument
Context(close) ==
    LET prices == [i \in DOMAIN close |-> Rat(close[i], 1)]
    IN [open |-> prices, high |-> prices, low |-> prices, close |-> prices,
        volume |-> [i \in DOMAIN close |-> Rat(i, 1)]]

\* the formulas at hand: literals and names, calls of functions known to
\* the validator, to the evaluator, to both or to neither, with no, one,
\* two or three arguments, operators of either table, and the constructs
\* the validator names, alone and inside a call
Leaves == {Constant(2), Name("close"), Name("volume"), Name("returns"), Name("foo")}

Constructs ==
    {Node(k, "", 0, << Name("close") >>) :
       k \in {"Attribute", "Subscript", "Lambda", "ListComp"}}

ArgLists ==
    {<< >>, << Name("close") >>, << Name("close"), Constant(2) >>,
     << Name("close"), Name("volume"), Constant(2) >>,
     << Name("foo"), Constant(2) >>}
      \cup {<< c >> : c \in Constructs}

Formulas ==
    Leaves \cup Constructs
      \cup {Call(f, a) : f \in {"abs", "sma", "max", "mean", "correlation", "foo"},
                         a \in ArgLists}
      \cup {Node("BinOp", o, 0, << l, r >>) :
              o \in {"Add", "Mod"}, l \in {Name("close")},
              r \in {Constant(2), Name("returns"), Call("max", << Name("close") >>)}}
      \cup {Node("UnaryOp", o, 0, << Name("close") >>) : o \in {"USub", "Not"}}
      \cup {Node("Compare", "Gt", 0, << Name("close"), Constant(2) >>),
            Node("BoolOp", "And", 0, << Name("close"), Name("volume") >>),
            Node("IfExp", "", 0, << Name("close"), Name("close"), Name("volume") >>)}

calcOthers ==
    UNCHANGED << clockVars, forward_tests, openAccounts, created, apiVars,
                 driverVars, serviceVars, sessions, startReq, authVars >>

\* alpha_calculator lines 117-120, called when an alpha is stored
\* (alpha_service lines 13 and 37)
ValidateFormula(f) ==
    /\ calc = NoCalc
    /\ calc' = [op |-> "validate", formula |-> f, ok |-> Validate(f)]
    /\ calcOthers

\* expression_parser lines 166-168, called when an alpha is run (service
\* lines 93-94)
ParseFormula(f) ==
    /\ calc = NoCalc
    /\ calc' = [op |-> "parse", formula |-> f, ok |-> ParseNode(f) # Raised]
    /\ calcOthers

\* service lines 93-99 for one instrument: the parsed formula evaluated
\* over the columns of its frame
EvaluateFormula(f, close) ==
    /\ ParseNode(f) # Raised
    /\ calc = NoCalc
    /\ calc' = [op |-> "evaluate", formula |-> f, stored |-> Validate(f),
                result |-> Evaluate(ParseNode(f), Context(close))]
    /\ calcOthers

\* the call of a rolling function with window n over the close column (and
\* the volume column where it takes two series)
RollingCall(fn, n) ==
    IF fn \in TwoSeriesFuncs
    THEN Call(fn, << Name("close"), Name("volume"), Constant(n) >>)
    ELSE Call(fn, << Name("close"), Constant(n) >>)

\* service lines 93-99 on two frames that differ in the close of time t
\* only: the outputs at t
EvaluateRolling(fn, n, close, t, v) ==
    /\ calc = NoCalc
    /\ calc' = [op |-> "rolling", fn |-> fn, window |-> n, close |-> close,
                t |-> t, v |-> v,
                out |-> Evaluate(ParseNode(RollingCall(fn, n)), Context(close)).v[t],
                injected |-> Evaluate(ParseNode(RollingCall(fn, n)),
                                      Context([close EXCEPT ![t] = v])).v[t]]
    /\ calcOthers

\* a row of the frame calculate_alpha_signals builds (service lines
\* 106-107): one whole-number or undefined signal per instrument
SignalValues == {Rat(v, 1) : v \in (-MaxSignal)..MaxSignal} \cup {NaN}

SignalRows == UNION {[1..k -> SignalValues] : k \in 1..MaxInstruments}

\* alpha_calculator lines 20-27 on one row
NeutralizeRow(raw) ==
    /\ calc = NoCalc
    /\ calc' = [op |-> "neutralize", raw |-> raw, weights |-> NeutralizeWeights(raw)]
    /\ calcOthers

\* the inputs of the sizing of one instrument: portfolio value, weight,
\* price, lot size and held quantity
SizerValues == {10 * k : k \in 0..MaxPortfolio}

\* a weight of the neutralizer lies in [-1, 1]
SizerWeights ==
    {w \in [n : (-MaxSignal)..MaxSignal, d : 1..MaxSignal] : Abs(w.n) <= w.d}

\* service lines 129-146 for one instrument with a price
SizeInstrument(value, signal, price, lot, held) ==
    /\ calc = NoCalc
    /\ calc' = [op |-> "size", value |-> value, signal |-> signal, price |-> price,
                lot |-> lot, held |-> held,
                position_change |-> PositionChange(value, signal, price, lot, held)]
    /\ calcOthers

\* the tickers of the broker's list
AllTickers == [i \in DOMAIN Instruments |-> Instruments[i].ticker]

\* what self.prices_data holds for each ticker when execute_trades is
\* called: a frame of candles, an empty frame, or no entry
FrameStates == [Range(AllTickers) -> {"data", "empty", "absent"}]

\* service lines 126-155 as a function of alpha_signals, prices_data and
\* positions: the trade actions, and the instruments the call reports an
\* error for.  The call returns nothing and the branch of lines 133-135
\* raises nothing, so it reports none.
PrepareTrades(frames, signals, positions) ==
    /\ calc = NoCalc
    /\ LET prices_data == [t \in {u \in DOMAIN frames : frames[u] # "absent"} |->
                             frames[t]]
           tickers == PricedTickers(AllTickers, signals, prices_data)
       IN \E value \in PortfolioValues, price \in [Range(tickers) -> Prices] :
            calc' = [op |-> "trades", frames |-> frames, signals |-> signals,
                     trade_actions |->
                       TradeActions(tickers, signals, value, price, positions),
                     reported |-> {}]
    /\ calcOthers

\* ------------------------------------------------------------------------
\* The formula compiler, the evaluator, the neutralizer and the sizer as
\* functions of their inputs: each behaviour is one call on one input
\* ------------------------------------------------------------------------
InitCalc ==
    /\ day = 1
    /\ tidx = 1
    /\ forward_tests = << >>
    /\ openAccounts = {}
    /\ created = 0
    /\ response = NoResponse
    /\ stopReq = IdleStop
    /\ drv = SleepingDriver
    /\ active_services = << >>
    /\ drvLog = EmptyLog
    /\ service = NoService
    /\ orders = << >>
    /\ sessions = NoSessions
    /\ calc = NoCalc
    /\ startReq = IdleStart
    /\ NoAuthTraffic

NextCalc ==
    \/ calc = NoCalc /\ \E f \in Formulas : ValidateFormula(f)
    \/ calc = NoCalc /\ \E f \in Formulas : ParseFormula(f)
    \/ calc = NoCalc /\ \E f \in Formulas, close \in PriceSeries :
                          EvaluateFormula(f, close)
    \/ calc = NoCalc /\ \E fn \in RollingFuncs, n \in 1..MaxWindow,
                            close \in PriceSeries, t \in 1..MaxLen, v \in 0..MaxValue :
                          EvaluateRolling(fn, n, close, t, v)
    \/ calc = NoCalc /\ \E raw \in SignalRows : NeutralizeRow(raw)
    \/ calc = NoCalc /\ \E value \in SizerValues, signal \in SizerWeights,
                            price \in 1..MaxValue, lot \in 1..MaxLot,
                            held \in (-MaxHeld)..MaxHeld :
                          SizeInstrument(value, signal, price, lot, held)
    \/ calc = NoCalc /\ \E frames \in FrameStates,
                            signals \in [Range(AllTickers) ->
                                           {Rat(-1, 2), Rat(0, 1), Rat(1, 2)}],
                            positions \in Portfolios :
                          PrepareTrades(frames, signals, positions)

SpecCalc == InitCalc /\ [][NextCalc]_vars

\* ------------------------------------------------------------------------
\* The broker-client cache (client/client_cache.py), get_tinkoff_client
\* (client/tinkoff_client.py) behind the dependency of utils/auth_deps.py,
\* and POST /tinkoff (auth/router.py), for one user.  A client is known by
\* the token it was built with.
\* ------------------------------------------------------------------------
cacheOthers ==
    UNCHANGED << clockVars, forward_tests, openAccounts, created, apiVars,
                 driverVars, serviceVars, sessions, calc, startReq >>

\* auth_deps line 38: the token is read from the database; settled records
\* that no token update was in flight at that moment
GetTokenForClient(g) ==
    /\ clientReq[g].pc \in {"idle", "returned"}
    /\ clientReq' = [clientReq EXCEPT
                       ![g] = [pc |-> "token", user_token |-> tinkoff_token,
                               client |-> NULL,
                               settled |-> tokenUpdate.pc = "idle"]]
    /\ UNCHANGED << tinkoff_token, client_cache, tokenUpdate >>
    /\ cacheOthers

\* tinkoff_client lines 458-469: a cached client is returned as it is;
\* without one the call builds a client and suspends on the validation
GetTinkoffClientLookup(g) ==
    /\ clientReq[g].pc = "token"
    /\ clientReq' = [clientReq EXCEPT
                       ![g] = IF client_cache # NULL
                              THEN [@ EXCEPT !.pc = "returned", !.client = client_cache]
                              ELSE [@ EXCEPT !.pc = "validating"]]
    /\ UNCHANGED << tinkoff_token, client_cache, tokenUpdate >>
    /\ cacheOthers

\* tinkoff_client lines 470-487: after the validation the client built
\* from user_token is put into the cache and returned; a failed validation
\* ends the request with an error
GetTinkoffClientValidated(g) ==
    /\ clientReq[g].pc = "validating"
    /\ \E valid \in BOOLEAN :
         IF valid
         THEN /\ client_cache' = clientReq[g].user_token
              /\ clientReq' = [clientReq EXCEPT
                                 ![g] = [@ EXCEPT !.pc = "returned",
                                                  !.client = clientReq[g].user_token]]
         ELSE /\ clientReq' = [clientReq EXCEPT ![g] = IdleGet]
              /\ UNCHANGED client_cache
    /\ UNCHANGED << tinkoff_token, tokenUpdate >>
    /\ cacheOthers

\* auth router lines 250-254: the new token is validated at the broker
UpdateTinkoffTokenBegin ==
    /\ tokenUpdate.pc = "idle"
    /\ tinkoff_token < MaxTokens
    /\ tokenUpdate' = [pc |-> "validating", token |-> tinkoff_token + 1]
    /\ UNCHANGED << tinkoff_token, client_cache, clientReq >>
    /\ cacheOthers

\* auth router lines 255-270: an invalid token is answered with 400, a
\* failed update with 500, else the token is written to the database
UpdateTinkoffTokenWrite ==
    /\ tokenUpdate.pc = "validating"
    /\ \E valid \in BOOLEAN, updated \in BOOLEAN :
         IF valid /\ updated
         THEN /\ tinkoff_token' = tokenUpdate.token
              /\ tokenUpdate' = [tokenUpdate EXCEPT !.pc = "written"]
         ELSE /\ tokenUpdate' = IdleUpdate
              /\ UNCHANGED tinkoff_token
    /\ UNCHANGED << client_cache, clientReq >>
    /\ cacheOthers

\* auth router lines 272-275 and client_cache lines 14-24
UpdateTinkoffTokenClear ==
    /\ tokenUpdate.pc = "written"
    /\ client_cache' = NULL
    /\ tokenUpdate' = IdleUpdate
    /\ UNCHANGED << tinkoff_token, clientReq >>
    /\ cacheOthers

InitCache ==
    /\ day = 1
    /\ tidx = 1
    /\ forward_tests = << >>
    /\ openAccounts = {}
    /\ created = 0
    /\ response = NoResponse
    /\ stopReq = IdleStop
    /\ drv = SleepingDriver
    /\ active_services = << >>
    /\ drvLog = EmptyLog
    /\ service = NoService
    /\ orders = << >>
    /\ sessions = NoSessions
    /\ calc = NoCalc
    /\ startReq = IdleStart
    /\ NoAuthTraffic

NextCache ==
    \/ \E g \in Getters : GetTokenForClient(g)
    \/ \E g \in Getters : GetTinkoffClientLookup(g)
    \/ \E g \in Getters : GetTinkoffClientValidated(g)
    \/ UpdateTinkoffTokenBegin
    \/ UpdateTinkoffTokenWrite
    \/ UpdateTinkoffTokenClear

SpecCache == InitCache /\ [][NextCache]_vars

Submitting == service.pc \in {"sell", "buy"}

RunOfAccount(a) == CHOOSE i \in DOMAIN forward_tests : forward_tests[i].account_id = a

\* C1: once two driver ticks have finished on one day, every run that was
\* eligible at the first of them (selected, inside the trading window, on a
\* weekday or with weekend trading, its user's token at hand) has been
\* evaluated and executed exactly once that day, its last-execution-date
\* was written exactly once, and it is the date of that day.
C1_TwoTicksExecuteOnce ==
    drvLog.ticks = 2 =>
      \A r \in drvLog.due :
        /\ drvLog.iterated[r] = 1
        /\ drvLog.writes[r] = 1
        /\ forward_tests[r].last_execution_date = day

\* C2: within one call of execute_trades no buy order is submitted to the
\* broker before a sell order.
C2_SellsBeforeBuys ==
    \A i, j \in DOMAIN orders :
      (i < j /\ orders[i].account = orders[j].account)
        => ~(orders[i].direction = "BUY" /\ orders[j].direction = "SELL")

\* C2 witness: the buy of the first instrument of the list was submitted
\* after the sell of the second one.
C2_Witness ==
    /\ Len(orders) = 2
    /\ orders[1].direction = "SELL" /\ orders[1].figi = "fB"
    /\ orders[2].direction = "BUY" /\ orders[2].figi = "fA"

\* C3: execute_trades leaves its two submission loops only by finishing
\* them: whatever the broker answered, at that point an order has been
\* submitted for every instrument with a non-zero delta, and each failure
\* is on record.
C3_FailureIsolated ==
    [][ (Submitting /\ service'.pc = "top") =>
          /\ service'.last = "completed"
          /\ \A i \in DOMAIN service.trade_actions :
               service.trade_actions[i].position_change # 0 =>
                 \E j \in DOMAIN orders' :
                   orders'[j].figi = service.trade_actions[i].figi ]_vars

\* C3 witness: the call finished, its first submission failed and the
\* second one was still made.
C3_Witness ==
    /\ service.pc = "top" /\ service.last = "completed"
    /\ Len(orders) = 2
    /\ ~orders[1].ok

C6_NoOrderAfterStop == \A i \in DOMAIN orders : ~orders[i].after_stop

\* C7: an iteration starts only inside the trading window, on a weekday or
\* for a run with weekend trading, and only when none completed that day.
C7_IterationGuard ==
    [][ (service.pc = "top" /\ service'.pc = "positions") =>
          /\ IsTradingTime(Hour(tidx), Minute(tidx))
          /\ (IsWeekday(day)
              \/ forward_tests[RunOfAccount(service.account_id)].trade_on_weekends)
          /\ service.last_execution_date # day ]_vars

C10_StopAtomic ==
    (stopReq.pc = "idle" /\ response.op = "stop") =>
      \A i \in DOMAIN forward_tests :
        forward_tests[i].is_running <=> forward_tests[i].account_id \in openAccounts

\* C11: an iteration in which the portfolio read or the price fetch of an
\* instrument failed submits no order and does not advance the
\* last-execution-date: whenever an iteration submits an order or
\* completes, the portfolio and the candles of every target instrument
\* were read within that iteration.
C11_BrokerFailureAborts ==
    [][ (/\ service.pc \in {"portfolio", "sell", "buy"}
         /\ \/ orders' # orders
            \/ service'.last = "completed") =>
          /\ service.read.positions
          /\ service.read.prices = Range(TickersOf(service.target_stocks)) ]_vars

\* C12: whatever happens to the row the driver is working on (its instance
\* cannot be built or initialized, or its iteration raises), the driver
\* goes on with the next selected row of the same tick, and the record and
\* the in-memory instance of every other run stay as they were.
C12_ErrorsStayInRun ==
    [][ (drv.pc = "loop" /\ drv' # drv) =>
          LET id == drv.active_tests[drv.idx] IN
          /\ drv.idx < Len(drv.active_tests) =>
                /\ drv'.pc = "loop"
                /\ drv'.idx = drv.idx + 1
                /\ drv'.active_tests = drv.active_tests
          /\ \A r \in DOMAIN forward_tests \ {id} :
                forward_tests'[r] = forward_tests[r]
          /\ \A r \in RunIds \ {id} :
                /\ r \in DOMAIN active_services' <=> r \in DOMAIN active_services
                /\ r \in DOMAIN active_services =>
                      active_services'[r] = active_services[r] ]_vars

\* C12 witness: the driver is at the second row of a tick whose first row
\* got no instance, its start having raised.
C12_Witness ==
    /\ drv.pc = "loop" /\ drv.idx = 2
    /\ drv.active_tests[1] \notin DOMAIN active_services

C14_PositionsReadBeforeSizing ==
    [][ (service.pc = "portfolio" /\ service'.trade_actions # << >>) =>
          /\ service.read.positions
          /\ \A i \in DOMAIN service'.trade_actions :
               LET act == service'.trade_actions[i]
                   inst == InstrumentOf(act.ticker)
               IN \E value \in PortfolioValues, price \in Prices :
                    act.position_change =
                      PositionChange(value, service.alpha_signals[act.ticker], price,
                                     inst.lot_size, service.positions[inst.figi]) ]_vars

\* C14 witness: an iteration that follows a completed one has sized its
\* orders, so positions of the earlier iteration were in memory when it
\* began.
C14_Witness ==
    /\ service.pc \in {"sell", "buy"}
    /\ service.last_execution_date # NULL
    /\ service.read.positions

\* C15: the output of a rolling function at time t is the same on two
\* series that differ only in the value at t.
C15_NoLookahead ==
    calc.op = "rolling" => calc.out = calc.injected

\* the number of arguments each function takes: for the validator the
\* helpers of alpha_calculator lines 31-57 and the builtin abs, for the
\* parser the arguments Func.evaluate reads (expression_parser lines 35-105)
ValidatorArity ==
    [sma |-> 2, std |-> 2, max |-> 2, min |-> 2, sign |-> 1, abs |-> 1]

EvaluatorArity ==
    [f \in RollingFuncs \cup {"abs", "sign"} |->
       IF f \in TwoSeriesFuncs THEN 3 ELSE IF f \in RollingFuncs THEN 2 ELSE 1]

\* the names bound when a formula is evaluated (service line 97)
ContextNames == {"open", "high", "low", "close", "volume"}

\* a formula that contains an unknown name, an unknown function, a call
\* with the wrong number of arguments, attribute access, subscripting, a
\* comprehension or a lambda
RECURSIVE HasDisallowed(_, _, _)
HasDisallowed(node, names, arity) ==
    \/ node.kind \in {"Attribute", "Subscript", "Lambda", "ListComp"}
    \/ node.kind = "Name" /\ node.name \notin names
    \/ node.kind = "Call" /\ node.name \notin DOMAIN arity
    \/ node.kind = "Call" /\ node.name \in DOMAIN arity
         /\ Len(node.args) # arity[node.name]
    \/ \E i \in DOMAIN node.args : HasDisallowed(node.args[i], names, arity)

\* C16: a formula with an unknown name, an unknown function, a call of the
\* wrong arity, attribute access, subscripting, a comprehension or a
\* lambda is refused as a whole by validate_formula and by
\* ExpressionParser.parse.
C16_DisallowedFailsCompile ==
    /\ (calc.op = "validate"
          /\ HasDisallowed(calc.formula, ALLOWED_NAMES, ValidatorArity)) => ~calc.ok
    /\ (calc.op = "parse"
          /\ HasDisallowed(calc.formula, ContextNames, EvaluatorArity)) => ~calc.ok

\* C17: a formula that validate_formula accepted and ExpressionParser.parse
\* parsed evaluates over the columns open, high, low, close and volume
\* without raising.
C17_CompiledEvaluates ==
    (calc.op = "evaluate" /\ calc.stored) => calc.result.tag # "error"

C19_DegenerateIsZero ==
    (/\ calc.op = "neutralize"
     /\ \/ \A i \in DOMAIN calc.raw : IsNaN(calc.raw[i])
        \/ \A i, j \in DOMAIN calc.raw : calc.raw[i] = calc.raw[j]) =>
      \A i \in DOMAIN calc.weights : calc.weights[i] = Rat(0, 1)

\* C20: an instrument whose signal is undefined gets weight 0, and the
\* weights of the others are those of the row of the defined signals alone.
C20_UndefinedGetsZero ==
    (/\ calc.op = "neutralize"
     /\ \E i \in DOMAIN calc.raw : IsNaN(calc.raw[i])) =>
      LET defined == SelectSeq(calc.raw, LAMBDA x : ~IsNaN(x))
          position(i) == Cardinality({j \in 1..i : ~IsNaN(calc.raw[j])})
      IN \A i \in DOMAIN calc.raw :
           IF IsNaN(calc.raw[i]) THEN calc.weights[i] = Rat(0, 1)
           ELSE calc.weights[i] = NeutralizeWeights(defined)[position(i)]

C22_ZeroWeightZeroDelta ==
    (calc.op = "size" /\ calc.signal.n = 0) => calc.position_change = 0

\* C22 amended: a weight of zero yields a target of zero lots, so the lot
\* delta is minus the held quantity in whole lots, rounded down; it is zero
\* exactly when the holding is non-negative and below one lot.
C22_ZeroWeightClosesPosition ==
    (calc.op = "size" /\ calc.signal.n = 0) =>
      /\ (-calc.position_change) * calc.lot <= calc.held
      /\ calc.held < (1 - calc.position_change) * calc.lot
      /\ calc.position_change = 0 <=> (0 <= calc.held /\ calc.held < calc.lot)

\* a weight of zero sized against a holding of more than one lot
C22_Witness ==
    /\ calc.op = "size"
    /\ calc.signal.n = 0
    /\ calc.held >= 2 * calc.lot
    /\ calc.position_change < 0

\* C23: a lot delta of zero produces no trade: no order of an iteration is
\* for an instrument whose computed delta is zero, and every order
\* submitted has a strictly positive quantity of lots.
C23_ZeroDeltaNoTrade ==
    /\ \A i \in DOMAIN orders : orders[i].quantity > 0
    /\ Submitting =>
         \A i \in DOMAIN orders, j \in DOMAIN service.trade_actions :
           service.trade_actions[j].figi = orders[i].figi
             => service.trade_actions[j].position_change # 0

\* the sequencer has passed over an action of delta zero and stands at an
\* order for another instrument
C23_Witness ==
    /\ Submitting
    /\ \E j \in 1..(service.idx - 1) : service.trade_actions[j].position_change = 0

\* C24: an instrument with no available price is reported as a sizing
\* error for that instrument in the result, not passed over in silence, and
\* the instruments that have a price are still sized.
C24_MissingPriceReported ==
    calc.op = "trades" =>
      \A t \in DOMAIN calc.frames :
        IF calc.frames[t] = "data"
        THEN \E i \in DOMAIN calc.trade_actions : calc.trade_actions[i].ticker = t
        ELSE t \in calc.reported

C26_EligibleRunExecutedInTick ==
    (drv.pc = "sleep" /\ drvLog.ticks >= 1) =>
      \A r \in drvLog.due \ drvLog.erred :
        /\ r \in DOMAIN active_services
        /\ drvLog.iterated[r] >= 1
        /\ forward_tests[r].last_execution_date = day

\* C27: once StopRun has cleared the running flag of a run and set its end
\* timestamp, no driver tick that begins afterwards takes the run up: the
\* rows a tick is to iterate, and so to submit orders for, are all running
\* and without an end timestamp at the moment the tick begins.
C27_NoTickAfterStop ==
    [][ (drv.pc = "sleep" /\ drv'.pc = "loop") =>
          \A i \in DOMAIN drv'.active_tests :
            /\ forward_tests[drv'.active_tests[i]].is_running
            /\ forward_tests[drv'.active_tests[i]].datetime_end = NULL ]_vars

\* a tick has begun and ended on the day after a run was stopped
C27_Witness ==
    /\ day = 2
    /\ \E r \in DOMAIN forward_tests :
         /\ forward_tests[r].datetime_end = 1
         /\ ~forward_tests[r].is_running
         /\ (forward_tests[r].last_execution_date = NULL
               \/ forward_tests[r].last_execution_date < day)
    /\ stopReq.pc = "idle"
    /\ drv.pc = "sleep"
    /\ drvLog.ticks >= 1

\* C28: in every state of the table a record has its running flag set
\* exactly when its end timestamp is null; once a stop has set the end
\* timestamp neither it nor the flag changes again, a further stop of the
\* run included; and no operation removes a record or changes its account
\* or start.
C28_RecordLifecycle ==
    [][ /\ Len(forward_tests') >= Len(forward_tests)
        /\ \A i \in DOMAIN forward_tests' :
             forward_tests'[i].is_running <=> forward_tests'[i].datetime_end = NULL
        /\ \A i \in DOMAIN forward_tests :
             /\ forward_tests'[i].account_id = forward_tests[i].account_id
             /\ forward_tests'[i].datetime_start = forward_tests[i].datetime_start
             /\ forward_tests[i].datetime_end # NULL =>
                  /\ forward_tests'[i].datetime_end = forward_tests[i].datetime_end
                  /\ forward_tests'[i].is_running = forward_tests[i].is_running ]_vars

\* a run stopped on the first day is in the table on the second, after its
\* last-execution-date was written on that second day
C28_Witness ==
    /\ day = 2
    /\ \E r \in DOMAIN forward_tests :
         /\ forward_tests[r].datetime_end = 1
         /\ ~forward_tests[r].is_running
         /\ forward_tests[r].last_execution_date = 2

\* C29: once a token update has completed, a request for the user's
\* broker client never gets a client built with an earlier token: a
\* request that read the token while no update was in flight gets a client
\* built with the token it read or with a later one (tokens are numbered
\* in the order they are set).
C29_NoClientOfOldToken ==
    \A g \in Getters :
      (clientReq[g].pc = "returned" /\ clientReq[g].settled)
        => clientReq[g].client >= clientReq[g].user_token

====
